---- MODULE Spec2Model ----
(***************************************************************************)
(* Model of tgt/helpers.py: the genetic heightmap generator.               *)
(*                                                                         *)
(* A numpy array is a record [shape, data]: shape is the tuple of its      *)
(* dimensions and data its elements in row-major order.  An array whose    *)
(* first axis is the population axis (np.array of a list of individuals)   *)
(* is the sequence of its sub-arrays.  Heights are integers; a metric is   *)
(* kept exact as a rational, the square root of an integer, or NaN.        *)
(***************************************************************************)
EXTENDS Integers, Sequences, FiniteSets, TLC

VARIABLES
    entry,            \* the function called: "generate" or "run_genetic_algorithm"
    h, w,             \* grid height and width
    generations,      \* argument generations
    population_size,  \* argument population_size
    num_children,     \* argument num_children
    stage,            \* position of the call
    error,            \* the exception that ended the call, "none" if none
    gen,              \* the loop variable i of run_genetic_algorithm
    population,       \* the local population (sequence of arrays)
    selection,        \* the local selection
    children,         \* the local children
    num_from_best,    \* the local num_from_best
    num_from_random,  \* the local num_from_random
    callsite,         \* indices of the breeders named by the call of breed
    result,           \* the value returned (sequence of arrays)
    before,           \* the argument arrays as they were when a function was called
    call              \* the function applied directly, with its arguments and draws

vars == <<entry, h, w, generations, population_size, num_children, stage, error,
          gen, population, selection, children, num_from_best, num_from_random,
          callsite, result, before, call>>

(***************************************************************************)
(* Bounds of the model.                                                    *)
(***************************************************************************)
MaxDim == 2
MaxGen == 2
MaxPop == 5
MaxChildren == 3

(***************************************************************************)
(* Arrays.                                                                 *)
(***************************************************************************)
Array(shape, data) == [shape |-> shape, data |-> data]

RECURSIVE Prod(_)
Prod(s) == IF s = <<>> THEN 1 ELSE Head(s) * Prod(Tail(s))

Size(a) == Prod(a.shape)

\* a[k] for an array a and a 0-based index k on its first axis.
Item(a, k) ==
    LET sz == Prod(Tail(a.shape))
    IN  Array(Tail(a.shape), SubSeq(a.data, k * sz + 1, (k + 1) * sz))

\* a[r, c] of a 2-D array, 0-based.
At(a, r, c) == a.data[r * a.shape[2] + c + 1]

RECURSIVE SumSet(_, _)
SumSet(f, S) ==
    IF S = {} THEN 0
    ELSE LET x == CHOOSE y \in S : TRUE IN f[x] + SumSet(f, S \ {x})

MinSet(S) == CHOOSE x \in S : \A y \in S : x <= y

MaxSet(S) == CHOOSE x \in S : \A y \in S : x >= y

CeilDiv(a, b) == (a + b - 1) \div b

\* The permutations of 1..n, as functions.
PermFns(n) == {p \in [1..n -> 1..n] : \A i, j \in 1..n : p[i] = p[j] => i = j}

\* The sequences s with s[i] \in sets[i] for every i.
RECURSIVE Products(_)
Products(sets) ==
    IF sets = <<>> THEN {<<>>}
    ELSE {<<x>> \o t : x \in Head(sets), t \in Products(Tail(sets))}

(***************************************************************************)
(* generate_basic_perlin_noise: noise.pnoise2 is a pure function of its    *)
(* arguments with values in [-1, 1]; the grid is any grid of such values.  *)
(***************************************************************************)
NoiseValues == {0, 1}

generate_basic_perlin_noise(hh, ww) ==
    {Array(<<hh, ww>>, d) : d \in [1..(hh * ww) -> NoiseValues]}

\* Every member is built by the same call with the same arguments.
generate_original_population(g, pop_size) == [k \in 1..pop_size |-> g]

(***************************************************************************)
(* Metric values.  NaN is what np.var gives for an empty slice.            *)
(***************************************************************************)
NaN == [kind |-> "nan", n |-> 0, d |-> 1]
Rat(n, d) == [kind |-> "rat", n |-> n, d |-> d]
Sqrt(s) == [kind |-> "sqrt", n |-> s, d |-> 1]

\* n/d < sqrt(s), for d > 0 and s >= 0.
RatLtSqrt(n, d, s) ==
    IF n < 0 THEN TRUE
    ELSE LET q == n \div d
         IN  IF (q + 1) * (q + 1) <= s THEN TRUE
             ELSE IF q * q >= s THEN FALSE
             ELSE n * n < s * d * d

\* sqrt(s) < n/d, for d > 0 and s >= 0.
SqrtLtRat(s, n, d) ==
    IF n <= 0 THEN FALSE
    ELSE LET q == n \div d
         IN  IF q * q > s THEN TRUE
             ELSE IF (q + 1) * (q + 1) <= s THEN FALSE
             ELSE s * d * d < n * n

\* x sorts strictly before y in numpy's order (NaN after every number).
Before(x, y) ==
    IF x.kind = "nan" THEN FALSE
    ELSE IF y.kind = "nan" THEN TRUE
    ELSE IF x.kind = "sqrt" /\ y.kind = "sqrt" THEN x.n < y.n
    ELSE IF x.kind = "rat" /\ y.kind = "sqrt" THEN RatLtSqrt(x.n, x.d, y.n)
    ELSE IF x.kind = "sqrt" /\ y.kind = "rat" THEN SqrtLtRat(x.n, y.n, y.d)
    ELSE x.n * y.d < y.n * x.d

(***************************************************************************)
(* The four metrics of a 2-D individual.                                   *)
(***************************************************************************)
SeaTarget == 25
BedrockTarget == -2000
MountainTarget == 3500
GlobalVarWeight == 10

\* The cells of individual[r0:r1, c0:c1].
Slice(r0, r1, c0, c1) == (r0..(r1 - 1)) \X (c0..(c1 - 1))

\* n^2 times the variance of the cells R of a: n * sum(x^2) - sum(x)^2.
VarNum(a, R) ==
    LET x == [rc \in R |-> At(a, rc[1], rc[2])]
        sq == [rc \in R |-> x[rc] * x[rc]]
        sm == SumSet(x, R)
    IN  Cardinality(R) * SumSet(sq, R) - sm * sm

loc_glbl_var(a) ==
    LET hh == a.shape[1]
        ww == a.shape[2]
        m0 == hh \div 2
        m1 == ww \div 2
        quads == << Slice(0, m0, 0, m1), Slice(0, m0, m1, ww),
                    Slice(m0, hh, 0, m1), Slice(m0, hh, m1, ww) >>
        all == Slice(0, hh, 0, ww)
        cnt == [q \in 1..4 |-> Cardinality(quads[q])]
    IN  IF (\E q \in 1..4 : cnt[q] = 0) \/ all = {} THEN NaN
        ELSE LET n == Cardinality(all)
                 den == cnt[1] * cnt[1] * cnt[2] * cnt[2] * cnt[3] * cnt[3]
                        * cnt[4] * cnt[4] * n * n
                 part == [q \in 1..4 |->
                            VarNum(a, quads[q]) * (den \div (cnt[q] * cnt[q]))]
             IN  Rat(part[1] + part[2] + part[3] + part[4]
                     - GlobalVarWeight * VarNum(a, all) * (den \div (n * n)), den)

sea_level(a) ==
    LET dev == [k \in 1..Size(a) |->
                   (a.data[k] - SeaTarget) * (a.data[k] - SeaTarget)]
    IN  Sqrt(SumSet(dev, 1..Size(a)))

bedrock(a) ==
    LET m == MinSet({a.data[k] : k \in 1..Size(a)})
    IN  Sqrt((m - BedrockTarget) * (m - BedrockTarget))

mountains(a) ==
    LET m == MaxSet({a.data[k] : k \in 1..Size(a)})
    IN  Sqrt((m - MountainTarget) * (m - MountainTarget))

NumMetrics == 4

score(a) == << loc_glbl_var(a), sea_level(a), bedrock(a), mountains(a) >>

(***************************************************************************)
(* compute_population_fitness.  np.argsort of the (N, 4) score matrix      *)
(* sorts every row on its own: order[i] is a permutation of 0..3, and      *)
(* population[order] indexes the population axis with it.  Equal scores    *)
(* may come out in either order.                                           *)
(***************************************************************************)
Ok(v) == [err |-> "none", val |-> v]
Err(e) == [err |-> e, val |-> <<>>]

\* The orders np.argsort can give for one row sc of scores (0-based indices).
ArgsortRow(sc) ==
    LET n == Len(sc)
    IN  {[k \in 1..n |-> p[k] - 1] : p \in
            {q \in PermFns(n) : \A k \in 1..(n - 1) : ~Before(sc[q[k + 1]], sc[q[k]])}}

RECURSIVE Concat(_)
Concat(ss) == IF ss = <<>> THEN <<>> ELSE Head(ss) \o Concat(Tail(ss))

\* population[idx] for one row idx of indices: the stack of the members named.
Take(pop, idx) ==
    Array(<<Len(idx)>> \o pop[1].shape,
          Concat([k \in 1..Len(idx) |-> pop[idx[k] + 1].data]))

\* The values population[order][i] can take: row i of the result.
RankedRow(pop, i) == {Take(pop, idx) : idx \in ArgsortRow(score(pop[i]))}

compute_population_fitness(pop) ==
    LET N == Len(pop)
    IN  IF N = 0 THEN {Ok(<<>>)}
        ELSE IF \E i \in 1..N : Size(pop[i]) = 0 THEN {Err("ValueError")}
        ELSE IF NumMetrics - 1 >= N THEN {Err("IndexError")}
        ELSE {Ok(r) : r \in Products([i \in 1..N |-> RankedRow(pop, i)])}

(***************************************************************************)
(* select_from_population.  random.choice(sorted_population) is one        *)
(* element along the first axis and [0] takes its first sub-array.         *)
(* random.shuffle permutes the list, and np.array stacks it; a list whose  *)
(* elements differ in shape is refused (ValueError) or kept as an array    *)
(* of objects, by the version of numpy.                                    *)
(***************************************************************************)
\* The lists next_generation can be before the shuffle, or the error raised.
Chosen(sp, num_from_top, num_random) ==
    IF num_from_top > Len(sp) THEN {Err("IndexError")}
    ELSE IF num_random > 0 /\ Len(sp) = 0 THEN {Err("IndexError")}
    ELSE {IF \E i \in 1..num_random :
                sp[pick[i]].shape = <<>> \/ Head(sp[pick[i]].shape) = 0
          THEN Err("IndexError")
          ELSE Ok([i \in 1..(num_from_top + num_random) |->
                     IF i <= num_from_top THEN sp[i]
                     ELSE Item(sp[pick[i - num_from_top]], 0)]) :
          pick \in [1..num_random -> 1..Len(sp)]}

Shuffles(list) == {[i \in 1..Len(list) |-> list[p[i]]] : p \in PermFns(Len(list))}

Ragged(list) == \E i, j \in 1..Len(list) : list[i].shape # list[j].shape

np_array(list) == IF Ragged(list) THEN {Err("ValueError"), Ok(list)} ELSE {Ok(list)}

select_from_population(sp, num_from_top, num_random) ==
    UNION {IF c.err # "none" THEN {c}
           ELSE UNION {np_array(l) : l \in Shuffles(c.val)} :
           c \in Chosen(sp, num_from_top, num_random)}

(***************************************************************************)
(* breed_population.  The name breed is bound nowhere in the module: the   *)
(* first evaluation of the call raises NameError.  BreedPairs are the      *)
(* breeder indices the call names in each turn of the outer loop.          *)
(***************************************************************************)
BreedPairs(count) == [i \in 1..CeilDiv(count, 2) |-> <<i - 1, count - 1 - (i - 1)>>]

breed_population(breeders, number_of_children) ==
    IF Len(BreedPairs(Len(breeders))) > 0 /\ number_of_children > 0
    THEN [err |-> "NameError", val |-> <<>>, at |-> BreedPairs(Len(breeders))[1]]
    ELSE [err |-> "none", val |-> <<>>, at |-> <<>>]

(***************************************************************************)
(* mutate and mutate_population.  A draw of random.random() * 100 and the  *)
(* chance are in tenths of a percent; the uniform matrix is in halves.     *)
(* int(np.random.normal(0, sqrt(std))) is 0 when the individual is         *)
(* constant (std = 0) and any integer otherwise.  Individuals are not      *)
(* empty.                                                                  *)
(***************************************************************************)
MutateScale == 20
MutationChance == 3

GateDraws == {0, 3, 999}
AmplitudeDraws == {-1, 0, 1}
UniformDraws == {0, 1}

IsConstant(a) == \A i, j \in 1..Size(a) : a.data[i] = a.data[j]

mutate(individual, k, u) ==
    LET mult == MutateScale * k
    IN  Array(individual.shape,
              [c \in 1..Size(individual) |->
                  individual.data[c] + (mult * u[c]) \div 2])

\* The gate with the comparison made inclusive.
GateInclusive(r, mutation_chance) == r <= mutation_chance

Gate(r, mutation_chance) == r < mutation_chance

\* The draws mutate_population makes for one individual.
DrawsFor(individual, mutation_chance) ==
    LET zero == [c \in 1..Size(individual) |-> 0]
    IN  UNION {IF Gate(r, mutation_chance)
               THEN {[r |-> r, k |-> k, u |-> u] :
                        k \in (IF IsConstant(individual) THEN {0} ELSE AmplitudeDraws),
                        u \in [1..Size(individual) -> UniformDraws]}
               ELSE {[r |-> r, k |-> 0, u |-> zero]} : r \in GateDraws}

mutate_population(pop, mutation_chance, draws) ==
    [i \in 1..Len(pop) |->
        IF Gate(draws[i].r, mutation_chance)
        THEN mutate(pop[i], draws[i].k, draws[i].u)
        ELSE pop[i]]

(***************************************************************************)
(* crossover and crossover2, on the arrays mem[a] and mem[b] passed as     *)
(* par1/member1 and par2/member2; both write through their arguments.     *)
(* The value is the memory after the call and the arrays returned.         *)
(***************************************************************************)
Plus(x, y) == Array(x.shape, [c \in 1..Size(x) |-> x.data[c] + y.data[c]])
Minus(x, y) == Array(x.shape, [c \in 1..Size(x) |-> x.data[c] - y.data[c]])

crossover(mem, a, b) ==
    LET tmp1 == mem[a]
        tmp2 == mem[b]
        m1 == [mem EXCEPT ![a] = Plus(tmp1, tmp2)]
        m2 == [m1 EXCEPT ![b] = Minus(tmp1, tmp2)]
    IN  [mem |-> m2, ret |-> <<b, b>>]

\* x * wt + y * (1 - wt), elementwise.
Blend(x, y, wt) ==
    Array(x.shape, [c \in 1..Size(x) |-> x.data[c] * wt[c] + y.data[c] * (1 - wt[c])])

\* rand(h, w) after (x - min) / (max - min), for two cells: one 0 and one 1.
Weightings(n) == {wt \in [1..n -> {0, 1}] : (\E c \in 1..n : wt[c] = 0)
                                            /\ (\E c \in 1..n : wt[c] = 1)}

crossover2(mem, a, b, weightings1, weightings2) ==
    LET m1 == [mem EXCEPT ![a] = Blend(mem[a], mem[b], weightings1)]
        m2 == [m1 EXCEPT ![b] = Blend(m1[a], m1[b], weightings2)]
    IN  [mem |-> m2, ret |-> <<a, b>>]

(***************************************************************************)
(* run_genetic_algorithm and generate.                                     *)
(***************************************************************************)
DefaultGenerations == 10
DefaultPopulationSize == 4
DefaultNumChildren == 2

NoCall == [fn |-> "none"]

Init ==
    /\ entry \in {"generate", "run_genetic_algorithm"}
    /\ h \in 0..MaxDim
    /\ w \in 0..MaxDim
    /\ IF entry = "generate"
       THEN /\ generations = DefaultGenerations
            /\ population_size = DefaultPopulationSize
            /\ num_children = DefaultNumChildren
       ELSE /\ generations \in 0..MaxGen
            /\ population_size \in 0..MaxPop
            /\ num_children \in 0..MaxChildren
    /\ stage = "Initializing"
    /\ error = "none"
    /\ gen = 0
    /\ population = <<>>
    /\ selection = <<>>
    /\ children = <<>>
    /\ num_from_best = 0
    /\ num_from_random = 0
    /\ callsite = <<>>
    /\ result = <<>>
    /\ before = <<>>
    /\ call = NoCall

\* Lines 227-229, and the first test of the loop.
Initialize ==
    /\ stage = "Initializing"
    /\ \E g \in generate_basic_perlin_noise(h, w) :
          population' = generate_original_population(g, population_size)
    /\ IF num_children = 0
       THEN /\ stage' = "Failed"
            /\ error' = "ZeroDivisionError"
            /\ UNCHANGED <<num_from_best, num_from_random>>
       ELSE /\ num_from_best' = CeilDiv(3 * population_size, 4 * num_children)
            /\ num_from_random' = population_size \div (4 * num_children)
            /\ stage' = IF generations > 0 THEN "Evaluating" ELSE "Returning"
            /\ error' = "none"
    /\ UNCHANGED <<entry, h, w, generations, population_size, num_children, gen,
                   selection, children, callsite, result, before, call>>

\* Line 231.
Evaluate ==
    /\ stage = "Evaluating"
    /\ \E o \in compute_population_fitness(population) :
          /\ error' = o.err
          /\ stage' = IF o.err = "none" THEN "Selecting" ELSE "Failed"
          /\ population' = IF o.err = "none" THEN o.val ELSE population
    /\ UNCHANGED <<entry, h, w, generations, population_size, num_children, gen,
                   selection, children, num_from_best, num_from_random, callsite,
                   result, before, call>>

\* Lines 232-233.
Select ==
    /\ stage = "Selecting"
    /\ \E o \in select_from_population(population, num_from_best, num_from_random) :
          /\ error' = o.err
          /\ stage' = IF o.err = "none" THEN "Breeding" ELSE "Failed"
          /\ selection' = IF o.err = "none" THEN o.val ELSE selection
    /\ UNCHANGED <<entry, h, w, generations, population_size, num_children, gen,
                   population, children, num_from_best, num_from_random, callsite,
                   result, before, call>>

\* Line 234.
Breed ==
    /\ stage = "Breeding"
    /\ LET o == breed_population(selection, num_children)
       IN  /\ error' = o.err
           /\ stage' = IF o.err = "none" THEN "Mutating" ELSE "Failed"
           /\ children' = IF o.err = "none" THEN o.val ELSE children
           /\ callsite' = o.at
    /\ UNCHANGED <<entry, h, w, generations, population_size, num_children, gen,
                   population, selection, num_from_best, num_from_random, result,
                   before, call>>

\* Line 235, and the next test of the loop.
Mutate ==
    /\ stage = "Mutating"
    /\ \E d \in Products([i \in 1..Len(children) |->
                            DrawsFor(children[i], MutationChance)]) :
          population' = mutate_population(children, MutationChance, d)
    /\ gen' = gen + 1
    /\ stage' = IF gen + 1 < generations THEN "Evaluating" ELSE "Returning"
    /\ UNCHANGED <<entry, h, w, generations, population_size, num_children, error,
                   selection, children, num_from_best, num_from_random, callsite,
                   result, before, call>>

\* Line 236, and for generate line 241: population[0].
Return ==
    /\ stage = "Returning"
    /\ IF entry = "generate" /\ Len(population) = 0
       THEN /\ stage' = "Failed"
            /\ error' = "IndexError"
            /\ UNCHANGED result
       ELSE /\ stage' = "Terminated"
            /\ result' = IF entry = "generate" THEN <<population[1]>> ELSE population
            /\ UNCHANGED error
    /\ UNCHANGED <<entry, h, w, generations, population_size, num_children, gen,
                   population, selection, children, num_from_best, num_from_random,
                   callsite, before, call>>

Next == Initialize \/ Evaluate \/ Select \/ Breed \/ Mutate \/ Return

Spec == Init /\ [][Next]_vars

(***************************************************************************)
(* The functions applied directly to arguments drawn from bounded sets.    *)
(***************************************************************************)
MaxSlots == 3
MaxMutatePop == 2
MaxSelectPop == 3
MaxRandom == 2
MaxFitnessPop == 4

\* The arrays of one shape with elements in values.
Arrays(shape, values) == {Array(shape, d) : d \in [1..Prod(shape) -> values]}

\* The sequences of lo..hi elements of S.
SeqsOf(S, lo, hi) == UNION {[1..n -> S] : n \in lo..hi}

\* A direct call: the arguments are in population, nothing has run yet.
Direct(shape) ==
    /\ entry = "function"
    /\ h = shape[1]
    /\ w = shape[2]
    /\ generations = 0
    /\ population_size = Len(population)
    /\ num_children = 0
    /\ stage = "Ready"
    /\ error = "none"
    /\ gen = 0
    /\ selection = <<>>
    /\ children = <<>>
    /\ callsite = <<>>
    /\ result = <<>>
    /\ before = <<>>
    /\ call = NoCall

unchangedByCall == <<entry, h, w, generations, population_size, num_children, gen,
                     selection, children, num_from_best, num_from_random, callsite>>

\* crossover and crossover2 on two of the arrays of a memory.
CrossoverShape == <<1, 2>>
CrossoverValues == {0, 1, 2}

InitCrossover ==
    /\ population \in SeqsOf(Arrays(CrossoverShape, CrossoverValues), 2, MaxSlots)
    /\ num_from_best = 0
    /\ num_from_random = 0
    /\ Direct(CrossoverShape)

CallCrossover ==
    /\ stage = "Ready"
    /\ \E a, b \in 1..Len(population) :
          LET o == crossover(population, a, b)
          IN  /\ population' = o.mem
              /\ result' = [k \in 1..2 |-> o.mem[o.ret[k]]]
              /\ call' = [fn |-> "crossover", a |-> a, b |-> b, ret |-> o.ret]
    /\ before' = population
    /\ stage' = "Done"
    /\ UNCHANGED error
    /\ UNCHANGED unchangedByCall

CallCrossover2 ==
    /\ stage = "Ready"
    /\ \E a, b \in 1..Len(population) :
       \E w1, w2 \in Weightings(Prod(CrossoverShape)) :
          LET o == crossover2(population, a, b, w1, w2)
          IN  /\ population' = o.mem
              /\ result' = [k \in 1..2 |-> o.mem[o.ret[k]]]
              /\ call' = [fn |-> "crossover2", a |-> a, b |-> b, ret |-> o.ret]
    /\ before' = population
    /\ stage' = "Done"
    /\ UNCHANGED error
    /\ UNCHANGED unchangedByCall

NextCrossover == CallCrossover \/ CallCrossover2

SpecCrossover == InitCrossover /\ [][NextCrossover]_vars

\* mutate_population on a population, for a chance of 0, 0.3 and 100 percent.
MutateShape == <<1, 2>>
MutateValues == {0, 1}
ChanceValues == {0, MutationChance, 100 * 10}

InitMutate ==
    /\ population \in SeqsOf(Arrays(MutateShape, MutateValues), 1, MaxMutatePop)
    /\ num_from_best = 0
    /\ num_from_random = 0
    /\ Direct(MutateShape)

CallMutatePopulation ==
    /\ stage = "Ready"
    /\ \E chance \in ChanceValues :
       \E d \in Products([i \in 1..Len(population) |-> DrawsFor(population[i], chance)]) :
          /\ population' = mutate_population(population, chance, d)
          /\ call' = [fn |-> "mutate_population", chance |-> chance, draws |-> d]
    /\ result' = population'
    /\ before' = population
    /\ stage' = "Done"
    /\ UNCHANGED error
    /\ UNCHANGED unchangedByCall

NextMutate == CallMutatePopulation

SpecMutate == InitMutate /\ [][NextMutate]_vars

\* select_from_population on a ranked population of 2-D individuals.
SelectShape == <<2, 1>>
SelectValues == {0, 1}

InitSelect ==
    /\ population \in SeqsOf(Arrays(SelectShape, SelectValues), 1, MaxSelectPop)
    /\ num_from_best \in 0..(Len(population) + 1)
    /\ num_from_random \in 0..MaxRandom
    /\ Direct(SelectShape)

CallSelect ==
    /\ stage = "Ready"
    /\ \E o \in select_from_population(population, num_from_best, num_from_random) :
          /\ result' = o.val
          /\ error' = o.err
    /\ call' = [fn |-> "select_from_population"]
    /\ before' = population
    /\ stage' = "Done"
    /\ UNCHANGED population
    /\ UNCHANGED unchangedByCall

NextSelect == CallSelect

SpecSelect == InitSelect /\ [][NextSelect]_vars

\* compute_population_fitness on a population of 2-D individuals.
FitnessShape == <<2, 2>>
FitnessValues == {0, 3500}

InitFitness ==
    /\ population \in SeqsOf(Arrays(FitnessShape, FitnessValues), 1, MaxFitnessPop)
    /\ num_from_best = 0
    /\ num_from_random = 0
    /\ Direct(FitnessShape)

CallFitness ==
    /\ stage = "Ready"
    /\ \E o \in compute_population_fitness(population) :
          /\ result' = o.val
          /\ error' = o.err
    /\ call' = [fn |-> "compute_population_fitness"]
    /\ before' = population
    /\ stage' = "Done"
    /\ UNCHANGED population
    /\ UNCHANGED unchangedByCall

NextFitness == CallFitness

SpecFitness == InitFitness /\ [][NextFitness]_vars

(***************************************************************************)
(* Properties.                                                             *)
(***************************************************************************)
ValidConfiguration ==
    h > 1 /\ w > 1 /\ population_size >= 1 /\ num_children >= 1 /\ generations >= 0

Count(seq, x) == Cardinality({i \in 1..Len(seq) : seq[i] = x})

\* C1: under a valid configuration (so population_size >= 1 and
\* num_children >= 1) the breeding step of every generation produces a population of exactly population_size
\* individuals, which is the population the mutation step then keeps.
C1_BreedingKeepsPopulationSize ==
    [][(stage = "Breeding" /\ ValidConfiguration)
          => (stage' = "Mutating" /\ Len(children') = population_size)]_vars

\* C2: under a valid configuration the call never ends in a failure other
\* than InvalidConfiguration or DegenerateGridError, and when generate ends
\* it has returned exactly one grid of shape h x w.
C2_CompletesAllGenerations ==
    ValidConfiguration =>
        /\ error \in {"none", "InvalidConfiguration", "DegenerateGridError"}
        /\ (stage = "Terminated" /\ entry = "generate")
              => (Len(result) = 1 /\ result[1].shape = <<h, w>>)
        /\ (stage = "Terminated") => gen = generations

\* C8: with height <= 1, width <= 1, population size 0 or children-per-pair 0
\* the call leaves its start only into the InvalidConfiguration failure: no
\* evaluation, selection, breeding or mutation step runs and no other failure
\* comes first.
C8_InvalidConfigurationFailsFast ==
    (h <= 1 \/ w <= 1 \/ population_size = 0 \/ num_children = 0) =>
        \/ stage = "Initializing"
        \/ (stage = "Failed" /\ error = "InvalidConfiguration")

\* C10: the call of the breeding operator names breeder i and breeder
\* count-1-i, and these are two different breeder slots, for every size of
\* the breeder pool the driver produces.
C10_ParentsAreDistinctSlots ==
    (ValidConfiguration /\ callsite # <<>>) =>
        /\ callsite[1] + callsite[2] = Len(selection) - 1
        /\ callsite[1] # callsite[2]

\* C4: for num_from_top within the population, select_from_population
\* returns num_from_top + num_from_random elements, every one of them a whole
\* individual of the ranked population, and among them the first
\* num_from_top individuals (as a multiset).
C4_PoolIsTopPlusWholeIndividuals ==
    (stage = "Done" /\ call.fn = "select_from_population"
        /\ num_from_best <= Len(before)) =>
        /\ error = "none"
        /\ Len(result) = num_from_best + num_from_random
        /\ \A i \in 1..Len(result) : \E k \in 1..Len(before) : result[i] = before[k]
        /\ \A k \in 1..num_from_best :
              Count(result, before[k]) >= Count(SubSeq(before, 1, num_from_best), before[k])

\* C5: for two distinct parent arrays p1 and p2 the pair crossover returns is
\* (p1 + p2, p1 - p2), so that child1 + child2 = 2 * p1 and
\* child1 - child2 = 2 * p2.
C5_CrossoverReturnsSumAndDifference ==
    (stage = "Done" /\ call.fn = "crossover" /\ call.a # call.b) =>
        LET p1 == before[call.a]
            p2 == before[call.b]
        IN  /\ result[1] = Plus(p1, p2)
            /\ result[2] = Minus(p1, p2)
            /\ Plus(result[1], result[2]) = Plus(p1, p1)
            /\ Minus(result[1], result[2]) = Plus(p2, p2)

\* C6: a call of crossover or crossover2 changes no array other than the two
\* it returns, and keeps the shape of every array.
C6_CrossoverChangesOnlyItsOutputs ==
    (stage = "Done" /\ call.fn \in {"crossover", "crossover2"}) =>
        \A s \in 1..Len(population) :
            /\ population[s].shape = before[s].shape
            /\ (s # call.ret[1] /\ s # call.ret[2]) => population[s] = before[s]

\* C7: mutate_population keeps the size and order of the population; with a
\* chance of 0 it leaves every individual unchanged whatever is drawn; an
\* individual whose draw is not below the chance is untouched; with a chance
\* of 100 percent every individual is the mutation of what it was.
C7_MutationGate ==
    (stage = "Done" /\ call.fn = "mutate_population") =>
        /\ Len(population) = Len(before)
        /\ (call.chance = 0) => (population = before)
        /\ \A i \in 1..Len(before) :
              (call.draws[i].r >= call.chance) => (population[i] = before[i])
        /\ (call.chance = 100 * 10) =>
              \A i \in 1..Len(before) :
                  population[i] = mutate(before[i], call.draws[i].k, call.draws[i].u)

\* C7 witness: a call with the chance of 0.3 percent in which the first
\* individual is mutated and differs from what it was, and the second, whose
\* draw is not below the chance, is there unchanged.
C7_Witness ==
    /\ stage = "Done"
    /\ call.fn = "mutate_population"
    /\ call.chance = MutationChance
    /\ Len(before) = 2
    /\ call.draws[1].r < call.chance
    /\ population[1] # before[1]
    /\ call.draws[2].r >= call.chance
    /\ population[2] = before[2]

\* C9: compute_population_fitness returns a permutation of its input: the
\* same individuals, each exactly once.
C9_RankingIsPermutation ==
    (stage = "Done" /\ call.fn = "compute_population_fitness") =>
        /\ error = "none"
        /\ Len(result) = Len(before)
        /\ \E p \in PermFns(Len(before)) :
              \A i \in 1..Len(before) : result[i] = before[p[i]]

====
